---- MODULE Spec2Model ----
(***************************************************************************)
(* Connection lifecycle of the vectorsmith backend adapters (Redis,        *)
(* PgVector, Sqlite, Qdrant) and of the VectorSmithAdapter aggregator that *)
(* fans connect()/disconnect() out over the configured adapters with       *)
(* Promise.all.                                                            *)
(*                                                                         *)
(* One caller issues calls one after the other (each call is awaited until *)
(* it resolves or rejects).  A call that awaits driver i/o leaves a task   *)
(* in flight; every settlement of a driver promise is one step.  When the  *)
(* join-all of an aggregate connect() rejects, the connects of the other   *)
(* backends stay in flight and settle later, after the caller has moved on.*)
(*                                                                         *)
(* Driver contract taken for node-redis, as its documentation states it:   *)
(* client.isOpen is false while the client is still connecting, true once  *)
(* client.connect() has resolved, and false again once client.quit() is    *)
(* called.                                                                 *)
(*                                                                         *)
(* Further specifications share the module: SpecData (the data operations  *)
(* of the PgVector and Sqlite adapters, one adapter and one table in a     *)
(* behaviour), SpecEmbed (the embed()/embedOne() calls of an embedding     *)
(* provider against its HTTP endpoint, made directly or through the        *)
(* VectorSmithEmbedding registry, one call at a time), SpecSql (the SQL    *)
(* text the two SQL adapters build from a table name), SpecRetrieve (the   *)
(* retrievers and the adapter methods they call) and SpecOverlap           *)
(* (connect()/disconnect() calls on one adapter that are not awaited one   *)
(* after the other).  Each specification leaves the variables of the       *)
(* others at their initial values.                                         *)
(***************************************************************************)
EXTENDS Integers, FiniteSets, Sequences, TLC

\* Number of driver handles (clients, pools, databases) created in a
\* behaviour, over all adapters.
MaxHandles == 4

Backends == {"redis", "pgvector", "sqlite", "qdrant"}

\* Adapters whose connect()/disconnect() await driver i/o.
AsyncConnect == {"redis", "pgvector", "qdrant"}
AsyncDisconnect == {"redis", "pgvector"}

\* Outcomes of the synchronous SqliteAdapter.connect(): success, a throw of
\* `new Database(...)` (the field is never assigned), or a throw of a later
\* step (pragmas, extension load, default table) with the database assigned.
SqliteOutcomes == {"ok", "failOpen", "failLate"}

\* The data operations of each adapter; every one starts with ensureConnected().
DataOps(b) ==
  CASE b = "redis" -> {"get", "set", "delete", "exists", "keys"}
    [] b = "pgvector" -> {"createTable", "insertVector", "searchSimilar",
                          "deleteVector", "dropTable"}
    [] b = "sqlite" -> {"createTable", "dropTable", "insertVector",
                        "upsertVector", "deleteVector", "searchSimilar"}
    [] b = "qdrant" -> {"createCollection", "deleteCollection",
                        "listCollections", "upsert", "search"}

VARIABLES
  config,     \* the backend keys present in the configuration object
  adapters,   \* the backend fields of the aggregator that hold an adapter
  slot,       \* per adapter: client / pool / database field (0 = null)
  created,    \* per adapter: number of driver handles created so far
  open,       \* per adapter: the handles the driver holds open
  connected,  \* QdrantAdapter.connected
  tasks,      \* adapter calls awaiting driver i/o
  pending,    \* the call the caller is awaiting
  last,       \* the last step as the caller sees it
  hist        \* "connFailed" after a rejected aggregate connect(), "cleaned" after the disconnect() that follows

\* The connection lifecycle
avars == <<config, adapters, slot, created, open, connected, tasks, pending,
           last, hist>>

VARIABLES
  pgTable,    \* the PostgreSQL table: exists, declared dimension, rows
  sqConfig,   \* SqliteAdapterConfig: vectorDimension, distanceMetric
  sqTable,    \* the SQLite table: exists, rows
  dlast       \* the last data operation: driver calls made, error, rows returned

dvars == <<pgTable, sqConfig, sqTable, dlast>>

VARIABLES
  embConfig,  \* per provider type: expectedDimensions of its options
  call,       \* the embed()/embedOne() call in progress or just finished
  registry,   \* the VectorSmithEmbedding instance: providers, defaultProvider
  rlast       \* the last operation of the registry as its caller sees it

evars == <<embConfig, call, registry, rlast>>

VARIABLES
  stmt,       \* the last SQL statement an adapter built: text, bound table name
  alast,      \* the last RedisAdapter.get / QdrantAdapter.search: arguments, outcome
  retr,       \* the last retrieve(): request and outcome ("-": an adapter was called directly)
  procs,      \* overlapping connect() / disconnect() calls: position, handle awaited
  closed      \* the handles quit() / end() was called on, in the order of the calls

\* The statements, the retrievers and the overlapping calls
xvars == <<stmt, alast, retr, procs, closed>>

vars == <<config, adapters, slot, created, open, connected, tasks, pending,
          last, hist, pgTable, sqConfig, sqTable, dlast, embConfig, call,
          registry, rlast, stmt, alast, retr, procs, closed>>

\* pending.ok: the backends whose connect() has resolved in the awaited call
NoCall == [kind |-> "none", b |-> "-", ok |-> {}]

\* last.pre: the adapter reported connected when the call was made (direct calls)
\* last.ok / last.bad: backends whose connect() resolved / rejected in the call
Event(op, b, res, pre, ok, bad) ==
  [op |-> op, b |-> b, res |-> res, pre |-> pre, ok |-> ok, bad |-> bad]

----------------------------------------------------------------------------
\* VectorSmithAdapter constructor: one adapter per key present in the config.
Constructor(cfg) ==
  (IF "redis" \in cfg THEN {"redis"} ELSE {})
    \cup (IF "pgvector" \in cfg THEN {"pgvector"} ELSE {})
    \cup (IF "sqlite" \in cfg THEN {"sqlite"} ELSE {})
    \cup (IF "qdrant" \in cfg THEN {"qdrant"} ELSE {})

\* RedisAdapter: this.client?.isOpen
RedisClientIsOpen == slot["redis"] # 0 /\ slot["redis"] \in open["redis"]

\* isConnected() of each adapter
RedisIsConnected == RedisClientIsOpen

PgVectorIsConnected == slot["pgvector"] # 0

SqliteIsConnected == slot["sqlite"] # 0

QdrantIsConnected == connected

IsConnected(b) ==
  CASE b = "redis" -> RedisIsConnected
    [] b = "pgvector" -> PgVectorIsConnected
    [] b = "sqlite" -> SqliteIsConnected
    [] b = "qdrant" -> QdrantIsConnected

\* ensureConnected() of each adapter passes
RedisEnsureConnected == RedisClientIsOpen

PgVectorEnsureConnected == slot["pgvector"] # 0

SqliteEnsureConnected == slot["sqlite"] # 0

\* A guard that tests the client alone, not the connected flag
QdrantEnsureConnectedClientOnly == slot["qdrant"] # 0

QdrantEnsureConnected == slot["qdrant"] # 0 /\ connected

EnsureConnected(b) ==
  CASE b = "redis" -> RedisEnsureConnected
    [] b = "pgvector" -> PgVectorEnsureConnected
    [] b = "sqlite" -> SqliteEnsureConnected
    [] b = "qdrant" -> QdrantEnsureConnected

\* The early return at the top of each adapter's connect()
RedisConnectReturnsEarly == RedisClientIsOpen

\* connect() without its early return
PgVectorConnectNeverReturnsEarly == FALSE

PgVectorConnectReturnsEarly == slot["pgvector"] # 0

SqliteConnectReturnsEarly == slot["sqlite"] # 0

QdrantConnectReturnsEarly == connected

ConnectReturnsEarly(b) ==
  CASE b = "redis" -> RedisConnectReturnsEarly
    [] b = "pgvector" -> PgVectorConnectReturnsEarly
    [] b = "sqlite" -> SqliteConnectReturnsEarly
    [] b = "qdrant" -> QdrantConnectReturnsEarly

\* The guard of each adapter's disconnect(); QdrantAdapter.disconnect() has none.
RedisDisconnectActs == RedisClientIsOpen

PgVectorDisconnectActs == slot["pgvector"] # 0

SqliteDisconnectActs == slot["sqlite"] # 0

QdrantDisconnectActs == TRUE

DisconnectActs(b) ==
  CASE b = "redis" -> RedisDisconnectActs
    [] b = "pgvector" -> PgVectorDisconnectActs
    [] b = "sqlite" -> SqliteDisconnectActs
    [] b = "qdrant" -> QdrantDisconnectActs

\* isConnected() where each adapter overwrites the flag instead of OR-ing into it
AggIsConnectedLastWins ==
  LET c0 == FALSE
      c1 == IF "redis" \in adapters THEN IsConnected("redis") ELSE c0
      c2 == IF "pgvector" \in adapters THEN IsConnected("pgvector") ELSE c1
      c3 == IF "sqlite" \in adapters THEN IsConnected("sqlite") ELSE c2
      c4 == IF "qdrant" \in adapters THEN IsConnected("qdrant") ELSE c3
  IN c4

\* VectorSmithAdapter.isConnected(): the running OR over the adapters held.
AggIsConnected ==
  LET c0 == FALSE
      c1 == IF "redis" \in adapters THEN c0 \/ IsConnected("redis") ELSE c0
      c2 == IF "pgvector" \in adapters THEN c1 \/ IsConnected("pgvector") ELSE c1
      c3 == IF "sqlite" \in adapters THEN c2 \/ IsConnected("sqlite") ELSE c2
      c4 == IF "qdrant" \in adapters THEN c3 \/ IsConnected("qdrant") ELSE c3
  IN c4

\* A getter that also requires the adapter to be connected
GetAdapterIfConnected(b) ==
  IF b \in adapters /\ IsConnected(b) THEN "adapter" ELSE "not_configured"

\* VectorSmithAdapter.getRedis / getPgVector / getSqlite / getQdrant
GetAdapter(b) == IF b \in adapters THEN "adapter" ELSE "not_configured"

\* A join that waits for every promise and ignores rejections
PromiseAllSettled(failed, waiting) ==
  IF waiting = {} THEN "ok" ELSE "pending"

\* Mutant: a join that does not wait for the unsettled promises
PromiseAllNoWait(failed, waiting) ==
  IF failed # {} THEN "fail" ELSE "ok"

\* Promise.all over promises of which `failed` have rejected and `waiting`
\* are unsettled (the others have resolved).
PromiseAll(failed, waiting) ==
  IF failed # {} THEN "fail"
  ELSE IF waiting = {} THEN "ok"
  ELSE "pending"

\* connect() without the empty check: Promise.all([]) resolves
AggConnectOutcomeNoCheck(S, failed, waiting) == PromiseAll(failed, waiting)

\* VectorSmithAdapter.connect(): the empty check, then the join.
AggConnectOutcome(S, failed, waiting) ==
  IF S = {} THEN "config_error" ELSE PromiseAll(failed, waiting)

----------------------------------------------------------------------------
\* connect() invoked on the adapters in S: the part up to the first await.
NeedOpen(S) == {b \in S : ~ConnectReturnsEarly(b)}

\* Handles created so far, over all adapters
Total(c) == c["redis"] + c["pgvector"] + c["sqlite"] + c["qdrant"]

\* The adapters that assign a new driver handle to their field
Made(S, sq) == {b \in NeedOpen(S) : ~(b = "sqlite" /\ sq = "failOpen")}

\* The connect() promises settled before any i/o completes
FailedNow(S, sq) ==
  IF "sqlite" \in NeedOpen(S) /\ sq # "ok" THEN {"sqlite"} ELSE {}

ResolvedNow(S, sq) ==
  (S \ NeedOpen(S))
    \cup (IF "sqlite" \in NeedOpen(S) /\ sq = "ok" THEN {"sqlite"} ELSE {})

ConnectTasks(S, joined) ==
  {[b |-> b, op |-> "connect", h |-> created[b] + 1, joined |-> joined] :
     b \in NeedOpen(S) \cap AsyncConnect}

StartConnect(S, sq, out) ==
  /\ Total(created) + Cardinality(Made(S, sq)) <= MaxHandles
  /\ sq \in SqliteOutcomes
  /\ sq # "ok" => "sqlite" \in NeedOpen(S)
  /\ slot' = [b \in Backends |->
                IF b \in Made(S, sq) THEN created[b] + 1 ELSE slot[b]]
  /\ created' = [b \in Backends |->
                   IF b \in Made(S, sq) THEN created[b] + 1 ELSE created[b]]
  /\ open' = [b \in Backends |->
                IF b \in Made(S, sq) \cap {"pgvector", "sqlite"}
                THEN open[b] \cup {created[b] + 1} ELSE open[b]]
  /\ connected' = connected
  /\ tasks' = tasks \cup ConnectTasks(S, out = "pending")

\* VectorSmithAdapter.connect()
AggConnect ==
  /\ pending.kind = "none"
  /\ \E sq \in SqliteOutcomes :
       LET S == adapters
           out == AggConnectOutcome(S, FailedNow(S, sq),
                                    NeedOpen(S) \cap AsyncConnect)
       IN /\ StartConnect(S, sq, out)
          /\ pending' = IF out = "pending"
                        THEN [kind |-> "aggConnect", b |-> "-",
                              ok |-> ResolvedNow(S, sq)]
                        ELSE NoCall
          /\ last' = Event("aggConnect", "-", out, FALSE,
                           ResolvedNow(S, sq), FailedNow(S, sq))
          /\ hist' = IF out = "fail" THEN "connFailed" ELSE "none"
  /\ UNCHANGED <<config, adapters>>

\* <Adapter>.connect() called directly on the adapter a getter returned
Connect(b) ==
  /\ pending.kind = "none"
  /\ b \in adapters
  /\ \E sq \in SqliteOutcomes :
       LET out == PromiseAll(FailedNow({b}, sq), NeedOpen({b}) \cap AsyncConnect)
       IN /\ StartConnect({b}, sq, out)
          /\ pending' = IF out = "pending"
                        THEN [kind |-> "connect", b |-> b, ok |-> {}]
                        ELSE NoCall
          /\ last' = Event("connect", b, out, IsConnected(b),
                           ResolvedNow({b}, sq), FailedNow({b}, sq))
  /\ hist' = "none"
  /\ UNCHANGED <<config, adapters>>

\* The tasks the awaited call still waits for, once task t has settled
Joined(t) == {u \in tasks \ {t} : u.joined}

Orphaned(T) == {[u EXCEPT !.joined = FALSE] : u \in T}

\* A driver promise has settled: the awaited call resolves, rejects or goes on
\* waiting; a task nobody awaits any more settles unobserved.
Settle(t, ok, bad) ==
  LET out == PromiseAll(bad, Joined(t))
  IN IF t.joined /\ out # "pending"
     THEN /\ pending' = NoCall
          /\ tasks' = Orphaned(tasks \ {t})
          /\ last' = Event(pending.kind, pending.b, out, FALSE,
                           pending.ok \cup ok, bad)
          /\ hist' = IF pending.kind = "aggConnect" /\ out = "fail"
                       THEN "connFailed"
                     ELSE IF pending.kind = "aggDisconnect" /\ hist = "connFailed"
                       THEN "cleaned"
                     ELSE hist
     ELSE /\ pending' = IF t.joined
                        THEN [pending EXCEPT !.ok = @ \cup ok] ELSE pending
          /\ tasks' = tasks \ {t}
          /\ last' = Event("settle", t.b, IF bad = {} THEN "ok" ELSE "fail",
                           FALSE, {}, {})
          /\ hist' = hist

\* The driver promise awaited by a connect() resolves
ConnectSucceed(t) ==
  /\ t \in tasks
  /\ t.op = "connect"
  /\ open' = IF t.b = "redis"
             THEN [open EXCEPT !["redis"] = @ \cup {t.h}] ELSE open
  /\ connected' = IF t.b = "qdrant" THEN TRUE ELSE connected
  /\ Settle(t, {t.b}, {})
  /\ UNCHANGED <<config, adapters, slot, created>>

\* The driver promise awaited by a connect() rejects
ConnectFail(t) ==
  /\ t \in tasks
  /\ t.op = "connect"
  /\ Settle(t, {}, {t.b})
  /\ UNCHANGED <<config, adapters, slot, created, open, connected>>

----------------------------------------------------------------------------
\* disconnect() invoked on the adapters in S: the part up to the first await.
Closing(S) == {b \in S : DisconnectActs(b)}

DisconnectTasks(S) ==
  {[b |-> b, op |-> "disconnect", h |-> slot[b], joined |-> TRUE] :
     b \in Closing(S) \cap AsyncDisconnect}

StartDisconnect(S) ==
  /\ slot' = [b \in Backends |->
                IF b \in Closing(S) \ AsyncDisconnect THEN 0 ELSE slot[b]]
  /\ open' = [b \in Backends |->
                IF b \in Closing(S) THEN open[b] \ {slot[b]} ELSE open[b]]
  /\ connected' = IF "qdrant" \in S THEN FALSE ELSE connected
  /\ tasks' = tasks \cup DisconnectTasks(S)
  /\ UNCHANGED <<created>>

\* Mutant: disconnect() is called on every configured adapter
AggDisconnectEveryAdapter ==
  /\ pending.kind = "none"
  /\ LET S == adapters
         out == PromiseAll({}, DisconnectTasks(S))
     IN /\ StartDisconnect(S)
        /\ pending' = IF out = "pending"
                      THEN [kind |-> "aggDisconnect", b |-> "-", ok |-> {}]
                      ELSE NoCall
        /\ last' = Event("aggDisconnect", "-", out, FALSE, {}, {})
        /\ hist' = IF out = "ok" /\ hist = "connFailed" THEN "cleaned" ELSE hist
  /\ UNCHANGED <<config, adapters>>

\* VectorSmithAdapter.disconnect()
AggDisconnect ==
  /\ pending.kind = "none"
  /\ LET S == {b \in adapters : IsConnected(b)}
         out == PromiseAll({}, DisconnectTasks(S))
     IN /\ StartDisconnect(S)
        /\ pending' = IF out = "pending"
                      THEN [kind |-> "aggDisconnect", b |-> "-", ok |-> {}]
                      ELSE NoCall
        /\ last' = Event("aggDisconnect", "-", out, FALSE, {}, {})
        /\ hist' = IF out = "ok" /\ hist = "connFailed" THEN "cleaned" ELSE hist
  /\ UNCHANGED <<config, adapters>>

\* <Adapter>.disconnect() called directly on the adapter a getter returned
Disconnect(b) ==
  /\ pending.kind = "none"
  /\ b \in adapters
  /\ LET out == PromiseAll({}, DisconnectTasks({b}))
     IN /\ StartDisconnect({b})
        /\ pending' = IF out = "pending"
                      THEN [kind |-> "disconnect", b |-> b, ok |-> {}]
                      ELSE NoCall
        /\ last' = Event("disconnect", b, out, IsConnected(b), {}, {})
  /\ UNCHANGED <<config, adapters, hist>>

\* client.quit() / pool.end() resolves: the adapter nulls its field
DisconnectSettle(t) ==
  /\ t \in tasks
  /\ t.op = "disconnect"
  /\ slot' = [slot EXCEPT ![t.b] = 0]
  /\ Settle(t, {}, {})
  /\ UNCHANGED <<config, adapters, created, open, connected>>

----------------------------------------------------------------------------
\* A getter of the aggregator
Get(b) ==
  /\ pending.kind = "none"
  /\ b \in Backends
  /\ last' = Event("get", b, GetAdapter(b), FALSE, {}, {})
  /\ UNCHANGED <<config, adapters, slot, created, open, connected, tasks,
                 pending, hist>>

\* A data operation of an adapter: ensureConnected(), then the driver call
DataOp(b, name) ==
  /\ pending.kind = "none"
  /\ b \in adapters
  /\ name \in DataOps(b)
  /\ last' = Event("data", b,
                   IF EnsureConnected(b) THEN "driver" ELSE "not_connected",
                   IsConnected(b), {}, {})
  /\ UNCHANGED <<config, adapters, slot, created, open, connected, tasks,
                 pending, hist>>

----------------------------------------------------------------------------
\* Data operations of PgVectorAdapter and SqliteAdapter (specification SpecData)

\* Rows written in a behaviour, over both tables
MaxRows == 2

\* Default of the `limit` parameter of searchSimilar
DefaultLimit == 10

\* Vector coordinates, declared dimensions, vectors and limits the caller uses
Coord == {1, 3}
Dims == {1, 2}
Vectors == UNION {[1..d -> Coord] : d \in Dims}
Limits == {1, DefaultLimit}

Absent == "absent"
PgMetrics == {"cosine", "l2", "inner_product"}
SqliteMetrics == {"cosine", "l2", "dot", "inner_product"}

\* The outcome of a data operation as its caller and the driver see it
Outcome(op, b, err, calls, q, metric, rows) ==
  [op |-> op, b |-> b, err |-> err, calls |-> calls, q |-> q,
   metric |-> metric, rows |-> rows]

NoOp == Outcome("none", "-", "none", <<>>, <<>>, "-", <<>>)

RowCount == Len(pgTable.rows) + Len(sqTable.rows)

RECURSIVE DotUpTo(_, _, _)
DotUpTo(a, b, n) == IF n = 0 THEN 0 ELSE a[n] * b[n] + DotUpTo(a, b, n - 1)

Dot(a, b) == DotUpTo(a, b, Len(a))

RECURSIVE L2SqUpTo(_, _, _)
L2SqUpTo(a, b, n) ==
  IF n = 0 THEN 0
  ELSE (a[n] - b[n]) * (a[n] - b[n]) + L2SqUpTo(a, b, n - 1)

\* The distance operators of pgvector.  A real number is kept exactly, as the
\* integers it is computed from: sqrt(n), -n, 1 - n/sqrt(d) and n/sqrt(d).
\* `embedding <-> q`: Euclidean distance
L2Distance(a, q) == [k |-> "sqrt", n |-> L2SqUpTo(a, q, Len(a)), d |-> 1]

\* `embedding <#> q`: negative inner product
NegInnerProduct(a, q) == [k |-> "neg", n |-> Dot(a, q), d |-> 1]

\* `embedding <=> q`: cosine distance
CosineDistance(a, q) ==
  [k |-> "1-n/sqrt(d)", n |-> Dot(a, q), d |-> Dot(a, a) * Dot(q, q)]

\* `1 - x` of a cosine distance x
OneMinus(x) == [k |-> "n/sqrt(d)", n |-> x.n, d |-> x.d]

\* x <= y for two reals of the same form (every n is >= 0 here)
Leq(x, y) ==
  CASE x.k = "sqrt" -> x.n <= y.n
    [] x.k = "neg" -> y.n <= x.n
    [] x.k = "1-n/sqrt(d)" -> y.n * y.n * x.d <= x.n * x.n * y.d
    [] x.k = "n/sqrt(d)" -> x.n * x.n * y.d <= y.n * y.n * x.d

\* ORDER BY key LIMIT limit over rows whose keys are keys[1], keys[2], ...:
\* every order the database may return (rows with equal keys come in any order)
Perms(n) == {p \in [1..n -> 1..n] : \A i, j \in 1..n : p[i] = p[j] => i = j}

Min(a, b) == IF a <= b THEN a ELSE b

OrderByLimit(keys, limit) ==
  {SubSeq(p, 1, Min(limit, Len(keys))) :
     p \in {r \in Perms(Len(keys)) :
              \A i, j \in 1..Len(keys) :
                 i < j => Leq(keys[r[i]], keys[r[j]])}}

\* PgVectorAdapter.searchSimilar: the `distance` column of the SELECT
PgDistanceExpr(distanceFunction, embedding, q) ==
  CASE distanceFunction = "cosine" -> OneMinus(CosineDistance(embedding, q))
    [] distanceFunction = "l2" -> L2Distance(embedding, q)
    [] distanceFunction = "inner_product" -> NegInnerProduct(embedding, q)

\* PgVectorAdapter.searchSimilar: the ORDER BY key of the SELECT
PgOrderKey(distanceFunction, embedding, q) == L2Distance(embedding, q)

\* PgVectorAdapter.createTable(tableName, vectorDimension)
PgCreateTable(d) ==
  /\ d \in Dims
  /\ "pgvector" \in adapters
  /\ IF ~PgVectorEnsureConnected
     THEN /\ dlast' = Outcome("createTable", "pgvector", "not_connected", <<>>,
                            <<>>, "-", <<>>)
          /\ pgTable' = pgTable
     ELSE /\ dlast' = Outcome("createTable", "pgvector", "none",
                            <<"pool.connect", "client.query">>, <<>>, "-", <<>>)
          /\ pgTable' = IF pgTable.exists THEN pgTable
                        ELSE [exists |-> TRUE, dim |-> d, rows |-> <<>>]
  /\ UNCHANGED <<avars, sqConfig, sqTable>>

\* What the database answers to the INSERT of PgVectorAdapter.insertVector:
\* TRUE when it rejects the statement (no such table, or a vector that does
\* not have the dimension of the column)
PgInsertRejected(embedding) ==
  ~pgTable.exists \/ Len(embedding) # pgTable.dim

\* PgVectorAdapter.insertVector(tableName, embedding)
PgInsertVector(embedding) ==
  /\ embedding \in Vectors
  /\ "pgvector" \in adapters
  /\ IF ~PgVectorEnsureConnected
     THEN /\ dlast' = Outcome("insertVector", "pgvector", "not_connected", <<>>,
                            embedding, "-", <<>>)
          /\ pgTable' = pgTable
     ELSE IF PgInsertRejected(embedding)
     THEN /\ dlast' = Outcome("insertVector", "pgvector", "driver_error",
                            <<"pool.connect", "client.query">>, embedding, "-",
                            <<>>)
          /\ pgTable' = pgTable
     ELSE /\ RowCount < MaxRows
          /\ dlast' = Outcome("insertVector", "pgvector", "none",
                            <<"pool.connect", "client.query">>, embedding, "-",
                            <<>>)
          /\ pgTable' = [pgTable EXCEPT !.rows = Append(@, embedding)]
  /\ UNCHANGED <<avars, sqConfig, sqTable>>

\* The rows PgVectorAdapter.searchSimilar maps the answer of the database to
PgRows(p, q, distanceFunction) ==
  [i \in 1..Len(p) |->
     [id |-> p[i], embedding |-> pgTable.rows[p[i]],
      distance |-> PgDistanceExpr(distanceFunction, pgTable.rows[p[i]], q)]]

\* PgVectorAdapter.searchSimilar(tableName, queryVector, limit, distanceFunction)
PgSearchSimilar(q, limit, distanceFunction) ==
  /\ q \in Vectors
  /\ limit \in Limits
  /\ distanceFunction \in PgMetrics
  /\ "pgvector" \in adapters
  /\ IF ~PgVectorEnsureConnected
     THEN dlast' = Outcome("searchSimilar", "pgvector", "not_connected", <<>>, q,
                         distanceFunction, <<>>)
     ELSE IF ~pgTable.exists \/ (pgTable.rows # <<>> /\ Len(q) # pgTable.dim)
     THEN dlast' = Outcome("searchSimilar", "pgvector", "driver_error",
                         <<"pool.connect", "client.query">>, q,
                         distanceFunction, <<>>)
     ELSE \E p \in OrderByLimit([i \in 1..Len(pgTable.rows) |->
                                   PgOrderKey(distanceFunction,
                                              pgTable.rows[i], q)],
                                limit) :
            dlast' = Outcome("searchSimilar", "pgvector", "none",
                           <<"pool.connect", "client.query">>, q,
                           distanceFunction, PgRows(p, q, distanceFunction))
  /\ UNCHANGED <<avars, pgTable, sqConfig, sqTable>>

\* SqliteAdapter.mapDistanceMetric ("unsupported" stands for its throw)
MapDistanceMetric(metric) ==
  IF metric = Absent THEN "cosine"
  ELSE IF metric = "inner_product" THEN "dot"
  ELSE IF metric \in {"cosine", "l2", "dot"} THEN metric
  ELSE "unsupported"

\* SqliteAdapter.distanceMetric, set by the constructor
SqDistanceMetric == MapDistanceMetric(sqConfig.distanceMetric)

\* The default of the `metric` parameter of SqliteAdapter.searchSimilar
SqDefaultMetric ==
  IF sqConfig.distanceMetric = Absent THEN "cosine"
  ELSE sqConfig.distanceMetric

\* Mutant: every supported metric is accepted, whatever the configured one is
AssertDistanceMetricAlways(metric) == TRUE

\* SqliteAdapter.assertDistanceMetric: TRUE when it returns without a throw
AssertDistanceMetric(metric) == MapDistanceMetric(metric) = SqDistanceMetric

\* SqliteAdapter.ensureDimension: TRUE when it returns without a throw
EnsureDimension(vector) == Len(vector) = sqConfig.vectorDimension

\* SqliteAdapter.serializeVector: TRUE when the vector is serialized, FALSE
\* when its ensureDimension throws
SerializeVector(vector) == EnsureDimension(vector)

\* SqliteAdapter.createTable(tableName)
SqCreateTable ==
  /\ "sqlite" \in adapters
  /\ IF ~SqliteEnsureConnected
     THEN /\ dlast' = Outcome("createTable", "sqlite", "not_connected", <<>>,
                            <<>>, "-", <<>>)
          /\ sqTable' = sqTable
     ELSE /\ dlast' = Outcome("createTable", "sqlite", "none",
                            <<"exec", "prepare", "get">>, <<>>, "-", <<>>)
          /\ sqTable' = [sqTable EXCEPT !.exists = TRUE]
  /\ UNCHANGED <<avars, pgTable, sqConfig>>

\* SqliteAdapter.insertVector(tableName, vector)
SqInsertVector(vector) ==
  /\ vector \in Vectors
  /\ "sqlite" \in adapters
  /\ IF ~SqliteEnsureConnected
     THEN /\ dlast' = Outcome("insertVector", "sqlite", "not_connected", <<>>,
                            vector, "-", <<>>)
          /\ sqTable' = sqTable
     ELSE IF ~sqTable.exists
     THEN /\ dlast' = Outcome("insertVector", "sqlite", "driver_error",
                            <<"prepare">>, vector, "-", <<>>)
          /\ sqTable' = sqTable
     ELSE IF ~SerializeVector(vector)
     THEN /\ dlast' = Outcome("insertVector", "sqlite", "dimension_mismatch",
                            <<"prepare">>, vector, "-", <<>>)
          /\ sqTable' = sqTable
     ELSE /\ RowCount < MaxRows
          /\ dlast' = Outcome("insertVector", "sqlite", "none",
                            <<"prepare", "run">>, vector, "-", <<>>)
          /\ sqTable' = [sqTable EXCEPT !.rows = Append(@, vector)]
  /\ UNCHANGED <<avars, pgTable, sqConfig>>

\* The distance vector_full_scan computes under the metric of vector_init
SqDistance(embedding, q) ==
  CASE SqDistanceMetric = "cosine" -> CosineDistance(embedding, q)
    [] SqDistanceMetric = "l2" -> L2Distance(embedding, q)
    [] SqDistanceMetric = "dot" -> NegInnerProduct(embedding, q)

\* The rows SqliteAdapter.searchSimilar maps the answer of the database to
SqRows(p, q) ==
  [i \in 1..Len(p) |->
     [id |-> p[i], embedding |-> sqTable.rows[p[i]],
      distance |-> SqDistance(sqTable.rows[p[i]], q)]]

\* SqliteAdapter.searchSimilar(tableName, queryVector, limit, metric)
SqSearchSimilar(q, limit, metric) ==
  /\ q \in Vectors
  /\ limit \in Limits
  /\ metric \in SqliteMetrics \cup {Absent, "hamming"}
  /\ "sqlite" \in adapters
  /\ LET requested == IF metric = Absent THEN SqDefaultMetric ELSE metric
     IN IF ~SqliteEnsureConnected
        THEN dlast' = Outcome("searchSimilar", "sqlite", "not_connected", <<>>,
                            q, metric, <<>>)
        ELSE IF ~EnsureDimension(q)
        THEN dlast' = Outcome("searchSimilar", "sqlite", "dimension_mismatch",
                            <<>>, q, metric, <<>>)
        ELSE IF MapDistanceMetric(requested) = "unsupported"
        THEN dlast' = Outcome("searchSimilar", "sqlite", "unsupported_metric",
                            <<>>, q, metric, <<>>)
        ELSE IF ~AssertDistanceMetric(requested)
        THEN dlast' = Outcome("searchSimilar", "sqlite", "metric_mismatch",
                            <<>>, q, metric, <<>>)
        ELSE IF ~sqTable.exists
        THEN dlast' = Outcome("searchSimilar", "sqlite", "driver_error",
                            <<"prepare">>, q, metric, <<>>)
        ELSE \E p \in OrderByLimit([i \in 1..Len(sqTable.rows) |->
                                      SqDistance(sqTable.rows[i], q)],
                                   limit) :
               dlast' = Outcome("searchSimilar", "sqlite", "none",
                              <<"prepare", "all">>, q, metric, SqRows(p, q))
  /\ UNCHANGED <<avars, pgTable, sqConfig, sqTable>>

\* The variables of the data operations where no data operation is made
DataIdle ==
  /\ pgTable = [exists |-> FALSE, dim |-> 1, rows |-> <<>>]
  /\ sqConfig = [vectorDimension |-> 1, distanceMetric |-> Absent]
  /\ sqTable = [exists |-> FALSE, rows |-> <<>>]
  /\ dlast = NoOp

----------------------------------------------------------------------------
\* embed() / embedOne() of JinaAIEmbeddingProvider and OpenAIEmbeddingProvider
\* and the VectorSmithEmbedding registry (specification SpecEmbed).  The two
\* provider classes differ in names and messages only.

\* Texts in one call, and items in the `data` array of one response
MaxTexts == 2
MaxItems == 2

ProviderTypes == {"JINA", "OPENAI"}

\* HTTP statuses the endpoint answers with
Statuses == {200, 401, 500}

\* Bodies of a non-success answer
Bodies == {"Unauthorized", "overloaded"}

\* `embedding` of a response item: an array of some length, or anything else
Embeddings ==
  {[array |-> TRUE, len |-> d] : d \in Dims} \cup {[array |-> FALSE, len |-> 0]}

\* An item of the `data` array
Items == {[embedding |-> e] : e \in Embeddings}

RECURSIVE SeqsUpTo(_, _)
SeqsUpTo(S, n) ==
  IF n = 0 THEN {<<>>}
  ELSE SeqsUpTo(S, n - 1) \cup
       {Append(s, x) : s \in {t \in SeqsUpTo(S, n - 1) : Len(t) = n - 1}, x \in S}

\* The `texts` argument: an array of some length, or not an array
Inputs ==
  {[array |-> TRUE, len |-> n] : n \in 0..MaxTexts} \cup {[array |-> FALSE, len |-> 0]}

\* VectorSmithEmbeddingConfig: each provider key absent, present with an api
\* key and a model, or present without one of them; the default provider key
ProviderConfigs == {"absent", "ok", "incomplete"}

RegistryConfigs ==
  [jina : ProviderConfigs, openai : ProviderConfigs,
   defaultProvider : ProviderTypes \cup {Absent}]

NoRegistry == [exists |-> FALSE, providers |-> {}, defaultProvider |-> {}]

NoConfig == [jina |-> "absent", openai |-> "absent", defaultProvider |-> Absent]

\* The outcome of an operation of the registry as its caller sees it
RegistryResult(op, cfg, arg, res, err) ==
  [op |-> op, cfg |-> cfg, arg |-> arg, res |-> res, err |-> err]

NoResult == RegistryResult("none", NoConfig, Absent, "-", "none")

NoCallYet ==
  [pc |-> "idle", fn |-> "-", texts |-> [array |-> TRUE, len |-> 0],
   provider |-> "-", posts |-> <<>>, timer |-> "off", status |-> 0, body |-> "-",
   read |-> "-", data |-> <<>>, err |-> "-", errStatus |-> 0, errBody |-> "-",
   vectors |-> <<>>, one |-> {}]

\* Mutant: an empty array is sent to the endpoint like any other
ValidTextsArrayOnly(texts) == texts.array

\* embed: `Array.isArray(texts) && texts.length !== 0`
ValidTexts(texts) == texts.array /\ texts.len # 0

\* Mutant: 4xx answers are read as embeddings
ResOkBelow500(status) == status < 500

\* Response.ok
ResOk(status) == status \in 200..299

\* Mutant: only the first vector is compared with expectedDimensions
DimensionsOkFirstOnly(vectors) ==
  \A d \in embConfig[call.provider] :
     vectors # <<>> => (vectors[1].array /\ vectors[1].len = d)

\* embed: the loop over the vectors when expectedDimensions is configured;
\* TRUE when it throws nothing
DimensionsOk(vectors) ==
  \A d \in embConfig[call.provider] :
     \A i \in 1..Len(vectors) : vectors[i].array /\ vectors[i].len = d

\* safeReadText: the text of the body, or the placeholder when reading throws
SafeReadText(readable, text) == IF readable THEN text ELSE "<no body>"

\* isAbortError, on the errors embed catches
IsAbortError(error) == error = "AbortError"

\* embedOne: `const [vector] = await this.embed([text])`
FirstOf(vectors) == IF vectors = <<>> THEN {} ELSE {vectors[1]}

\* embed ends with a throw (the catch maps an abort to the timeout error; the
\* finally clears the timer); embedOne rethrows
Throw(c, error, status, text) ==
  [c EXCEPT !.pc = "done",
            !.err = IF IsAbortError(error) THEN "timeout" ELSE error,
            !.errStatus = status,
            !.errBody = text,
            !.timer = IF @ = "armed" THEN "cleared" ELSE @]

\* embed returns the vectors; embedOne returns the first of them
Return(c, vectors) ==
  [c EXCEPT !.pc = "done",
            !.err = "none",
            !.vectors = IF c.fn = "embed" THEN vectors ELSE <<>>,
            !.one = IF c.fn = "embedOne" THEN FirstOf(vectors) ELSE {},
            !.timer = IF @ = "armed" THEN "cleared" ELSE @]

\* embed up to its first await: the validation, the timer, the request
StartEmbed(fn, provider, texts) ==
  LET c == [NoCallYet EXCEPT !.fn = fn, !.provider = provider, !.texts = texts]
  IN IF ~ValidTexts(texts)
     THEN Throw(c, "invalid_input", 0, "-")
     ELSE [c EXCEPT !.pc = "fetch", !.timer = "armed",
                    !.posts = Append(@, texts.len)]

\* embed(texts) of a provider the caller constructed
Embed(type, texts) ==
  /\ call.pc \in {"idle", "done"}
  /\ type \in ProviderTypes
  /\ texts \in Inputs
  /\ call' = StartEmbed("embed", type, texts)
  /\ rlast' = NoResult
  /\ UNCHANGED <<embConfig, registry>>

\* embedOne(text) of a provider the caller constructed
EmbedOne(type) ==
  /\ call.pc \in {"idle", "done"}
  /\ type \in ProviderTypes
  /\ call' = StartEmbed("embedOne", type, [array |-> TRUE, len |-> 1])
  /\ rlast' = NoResult
  /\ UNCHANGED <<embConfig, registry>>

\* fetch rejects: the request could not be made or answered
FetchRejects ==
  /\ call.pc = "fetch"
  /\ call' = Throw(call, "network", 0, "-")
  /\ UNCHANGED <<embConfig, registry, rlast>>

\* fetch resolves: the status line and the headers have arrived
FetchResolves(status) ==
  /\ call.pc = "fetch"
  /\ status \in Statuses
  /\ call' = [call EXCEPT !.pc = "body", !.status = status]
  /\ UNCHANGED <<embConfig, registry, rlast>>

\* The timer set by embed fires: controller.abort() rejects the fetch, res.json()
\* or res.text() the call is awaiting with an AbortError
TimerFires ==
  /\ call.timer = "armed"
  /\ call.pc \in {"fetch", "body"}
  /\ LET c == [call EXCEPT !.timer = "fired"]
     IN call' =
          IF call.pc = "fetch" \/ ResOk(call.status)
          THEN Throw(c, "AbortError", 0, "-")
          ELSE Throw([c EXCEPT !.read = "unreadable"], "http_status",
                     call.status, SafeReadText(FALSE, "-"))
  /\ UNCHANGED <<embConfig, registry, rlast>>

\* The body of a non-success answer has been read, or reading it has failed
ErrorBody(readable, text) ==
  /\ call.pc = "body"
  /\ ~ResOk(call.status)
  /\ readable \in BOOLEAN
  /\ text \in Bodies
  /\ call' = Throw([call EXCEPT !.read = IF readable THEN "text" ELSE "unreadable",
                                !.body = IF readable THEN text ELSE "-"],
                   "http_status", call.status, SafeReadText(readable, text))
  /\ UNCHANGED <<embConfig, registry, rlast>>

\* res.json() rejects: the body is cut short or is not JSON
JsonRejects ==
  /\ call.pc = "body"
  /\ ResOk(call.status)
  /\ call' = Throw([call EXCEPT !.read = "not_json"], "parse", 0, "-")
  /\ UNCHANGED <<embConfig, registry, rlast>>

\* res.json() resolves with something that has no `data` array
JsonWithoutData ==
  /\ call.pc = "body"
  /\ ResOk(call.status)
  /\ call' = Throw([call EXCEPT !.read = "no_data"], "shape", 0, "-")
  /\ UNCHANGED <<embConfig, registry, rlast>>

\* res.json() resolves with {data: [...]}: map, check the dimensions, return
JsonWithData(data) ==
  /\ call.pc = "body"
  /\ ResOk(call.status)
  /\ data \in SeqsUpTo(Items, MaxItems)
  /\ LET c == [call EXCEPT !.read = "data", !.data = data]
         vectors == [i \in 1..Len(data) |-> data[i].embedding]
     IN call' = IF DimensionsOk(vectors)
                THEN Return(c, vectors)
                ELSE Throw(c, "dimension_mismatch", 0, "-")
  /\ UNCHANGED <<embConfig, registry, rlast>>

\* The providers map the constructor fills
ConfiguredProviders(cfg) ==
  (IF cfg.jina # "absent" THEN {"JINA"} ELSE {})
    \cup (IF cfg.openai # "absent" THEN {"OPENAI"} ELSE {})

\* Mutant: an empty providers map is accepted
ConstructorErrorNoSizeCheck(cfg) ==
  IF cfg.jina = "incomplete" \/ cfg.openai = "incomplete"
  THEN "provider_config"
  ELSE IF cfg.defaultProvider # Absent
          /\ cfg.defaultProvider \notin ConfiguredProviders(cfg)
  THEN "default_not_configured"
  ELSE "none"

\* The error the constructor of VectorSmithEmbedding throws ("none": it returns)
ConstructorError(cfg) ==
  IF cfg.jina = "incomplete" \/ cfg.openai = "incomplete"
  THEN "provider_config"
  ELSE IF Cardinality(ConfiguredProviders(cfg)) = 0
  THEN "no_provider"
  ELSE IF cfg.defaultProvider # Absent
          /\ cfg.defaultProvider \notin ConfiguredProviders(cfg)
  THEN "default_not_configured"
  ELSE "none"

\* Mutant: a sole configured provider does not become the default
ConstructorDefaultExplicitOnly(cfg) ==
  IF cfg.defaultProvider # Absent THEN {cfg.defaultProvider} ELSE {}

\* The default provider the constructor sets
ConstructorDefault(cfg) ==
  IF cfg.defaultProvider # Absent THEN {cfg.defaultProvider}
  ELSE IF Cardinality(ConfiguredProviders(cfg)) = 1
  THEN ConfiguredProviders(cfg)
  ELSE {}

\* new VectorSmithEmbedding(config)
NewRegistry(cfg) ==
  /\ ~registry.exists
  /\ call.pc \in {"idle", "done"}
  /\ cfg \in RegistryConfigs
  /\ registry' = IF ConstructorError(cfg) # "none" THEN NoRegistry
                 ELSE [exists |-> TRUE,
                       providers |-> ConfiguredProviders(cfg),
                       defaultProvider |-> ConstructorDefault(cfg)]
  /\ rlast' = RegistryResult("new", cfg, Absent, "-", ConstructorError(cfg))
  /\ call' = NoCallYet
  /\ UNCHANGED embConfig

\* VectorSmithEmbedding.hasProvider(type)
HasProvider(type) ==
  /\ registry.exists
  /\ call.pc \in {"idle", "done"}
  /\ type \in ProviderTypes
  /\ rlast' = RegistryResult("hasProvider", NoConfig, type,
                             IF type \in registry.providers THEN "true"
                             ELSE "false", "none")
  /\ call' = NoCallYet
  /\ UNCHANGED <<embConfig, registry>>

\* Mutant: the default is assigned without looking the type up
SetDefaultProviderUnchecked(type) ==
  /\ registry.exists
  /\ call.pc \in {"idle", "done"}
  /\ type \in ProviderTypes
  /\ rlast' = RegistryResult("setDefaultProvider", NoConfig, type, "-", "none")
  /\ registry' = [registry EXCEPT !.defaultProvider = {type}]
  /\ call' = NoCallYet
  /\ UNCHANGED embConfig

\* VectorSmithEmbedding.setDefaultProvider(type)
SetDefaultProvider(type) ==
  /\ registry.exists
  /\ call.pc \in {"idle", "done"}
  /\ type \in ProviderTypes
  /\ IF type \notin registry.providers
     THEN /\ rlast' = RegistryResult("setDefaultProvider", NoConfig, type, "-",
                                     "not_configured")
          /\ registry' = registry
     ELSE /\ rlast' = RegistryResult("setDefaultProvider", NoConfig, type, "-",
                                     "none")
          /\ registry' = [registry EXCEPT !.defaultProvider = {type}]
  /\ call' = NoCallYet
  /\ UNCHANGED embConfig

\* VectorSmithEmbedding.getDefaultProviderType()
GetDefaultProviderType ==
  /\ registry.exists
  /\ call.pc \in {"idle", "done"}
  /\ rlast' = RegistryResult("getDefaultProviderType", NoConfig, Absent,
                             IF registry.defaultProvider = {} THEN "undefined"
                             ELSE CHOOSE t \in registry.defaultProvider : TRUE,
                             "none")
  /\ call' = NoCallYet
  /\ UNCHANGED <<embConfig, registry>>

\* Mutant: the explicit type is ignored, the default is always taken
ResolveProviderDefaultOnly(type) ==
  IF registry.defaultProvider = {} THEN [err |-> "no_default", provider |-> "-"]
  ELSE IF registry.defaultProvider \cap registry.providers = {}
  THEN [err |-> "not_configured", provider |-> "-"]
  ELSE [err |-> "none", provider |-> CHOOSE t \in registry.defaultProvider : TRUE]

\* VectorSmithEmbedding.getProvider(type?): the provider it returns, or the
\* error it throws
ResolveProvider(type) ==
  LET resolved == IF type # Absent THEN {type} ELSE registry.defaultProvider
  IN IF resolved = {} THEN [err |-> "no_default", provider |-> "-"]
     ELSE IF resolved \cap registry.providers = {}
     THEN [err |-> "not_configured", provider |-> "-"]
     ELSE [err |-> "none", provider |-> CHOOSE t \in resolved : TRUE]

GetProvider(type) ==
  /\ registry.exists
  /\ call.pc \in {"idle", "done"}
  /\ type \in ProviderTypes \cup {Absent}
  /\ rlast' = RegistryResult("getProvider", NoConfig, type,
                             ResolveProvider(type).provider,
                             ResolveProvider(type).err)
  /\ call' = NoCallYet
  /\ UNCHANGED <<embConfig, registry>>

\* VectorSmithEmbedding.embed(texts, type?) and embedOne(text, type?)
RegistryEmbed(fn, texts, type) ==
  /\ registry.exists
  /\ call.pc \in {"idle", "done"}
  /\ fn \in {"embed", "embedOne"}
  /\ texts \in Inputs
  /\ fn = "embedOne" => texts = [array |-> TRUE, len |-> 1]
  /\ type \in ProviderTypes \cup {Absent}
  /\ rlast' = RegistryResult(fn, NoConfig, type, ResolveProvider(type).provider,
                             ResolveProvider(type).err)
  /\ call' = IF ResolveProvider(type).err # "none"
             THEN [NoCallYet EXCEPT !.fn = fn, !.texts = texts, !.pc = "done",
                                    !.err = ResolveProvider(type).err]
             ELSE StartEmbed(fn, ResolveProvider(type).provider, texts)
  /\ UNCHANGED <<embConfig, registry>>

\* The variables of the embeddings where no embedding is asked for
EmbedIdle ==
  /\ embConfig = [t \in ProviderTypes |-> {}]
  /\ call = NoCallYet
  /\ registry = NoRegistry
  /\ rlast = NoResult

\* The variables of the connection lifecycle where no backend is configured
AdaptersIdle ==
  /\ config = {}
  /\ adapters = Constructor(config)
  /\ slot = [b \in Backends |-> 0]
  /\ created = [b \in Backends |-> 0]
  /\ open = [b \in Backends |-> {}]
  /\ connected = FALSE
  /\ tasks = {}
  /\ pending = NoCall
  /\ last = Event("new", "-", "ok", FALSE, {}, {})
  /\ hist = "none"

----------------------------------------------------------------------------
\* The SQL text PgVectorAdapter and SqliteAdapter build from a table name
\* (specification SpecSql).  A text is a sequence whose elements are the
\* characters of the table name and the fixed fragments of the template
\* literals, which hold no double quote.

\* Length of a table name
MaxNameLen == 2

Quote == "\""

\* Characters of a table name
NameChars == {"t", Quote, ";"}

TableNames == SeqsUpTo(NameChars, MaxNameLen)

\* identifier.replace(/"/g, '""')
RECURSIVE ReplaceQuotes(_)
ReplaceQuotes(identifier) ==
  IF identifier = <<>> THEN <<>>
  ELSE (IF Head(identifier) = Quote THEN <<Quote, Quote>>
        ELSE <<Head(identifier)>>) \o ReplaceQuotes(Tail(identifier))

\* SqliteAdapter.escapeIdentifier
SqliteEscapeIdentifier(identifier) ==
  <<Quote>> \o ReplaceQuotes(identifier) \o <<Quote>>

\* Mutant: the name is wrapped in quotes as it is
PgVectorEscapeIdentifierNoDoubling(identifier) ==
  <<Quote>> \o identifier \o <<Quote>>

\* PgVectorAdapter.escapeIdentifier
PgVectorEscapeIdentifier(identifier) ==
  <<Quote>> \o ReplaceQuotes(identifier) \o <<Quote>>

\* The statement each operation of PgVectorAdapter hands to client.query
PgVectorSql(op, tableName) ==
  CASE op = "createTable" ->
         <<"CREATE TABLE IF NOT EXISTS ">> \o PgVectorEscapeIdentifier(tableName)
           \o <<" (id SERIAL PRIMARY KEY, embedding vector(n), metadata JSONB, created_at TIMESTAMP DEFAULT CURRENT_TIMESTAMP)">>
    [] op = "insertVector" ->
         <<"INSERT INTO ">> \o PgVectorEscapeIdentifier(tableName)
           \o <<" (embedding, metadata) VALUES ($1::vector, $2::jsonb) RETURNING id">>
    [] op = "searchSimilar" ->
         <<"SELECT id, embedding::text, metadata, expr as distance FROM ">>
           \o PgVectorEscapeIdentifier(tableName)
           \o <<" ORDER BY embedding <-> $1::vector LIMIT $2">>
    [] op = "deleteVector" ->
         <<"DELETE FROM ">> \o PgVectorEscapeIdentifier(tableName)
           \o <<" WHERE id = $1">>
    [] op = "dropTable" ->
         <<"DROP TABLE IF EXISTS ">> \o PgVectorEscapeIdentifier(tableName)

\* The statement each operation of SqliteAdapter hands to exec or prepare with
\* the table name in its text
SqliteSql(op, tableName) ==
  CASE op = "createTable" ->
         <<"CREATE TABLE IF NOT EXISTS ">> \o SqliteEscapeIdentifier(tableName)
           \o <<" (id INTEGER PRIMARY KEY AUTOINCREMENT, embedding BLOB NOT NULL, metadata TEXT, created_at TEXT DEFAULT (datetime('now')))">>
    [] op = "dropTable" ->
         <<"DROP TABLE IF EXISTS ">> \o SqliteEscapeIdentifier(tableName)
    [] op = "insertVector" ->
         <<"INSERT INTO ">> \o SqliteEscapeIdentifier(tableName)
           \o <<" (embedding, metadata) VALUES (vector_as_f32(@embedding), @metadata)">>
    [] op = "upsertVector" ->
         <<"INSERT INTO ">> \o SqliteEscapeIdentifier(tableName)
           \o <<" (id, embedding, metadata) VALUES (@id, vector_as_f32(@embedding), @metadata) ON CONFLICT(id) DO UPDATE SET embedding = excluded.embedding, metadata = excluded.metadata">>
    [] op = "deleteVector" ->
         <<"DELETE FROM ">> \o SqliteEscapeIdentifier(tableName)
           \o <<" WHERE id = @id">>
    [] op = "searchSimilar" ->
         <<"SELECT source.id, source.embedding AS embedding_blob, source.metadata, match.distance FROM ">>
           \o SqliteEscapeIdentifier(tableName)
           \o <<" AS source JOIN vector_full_scan(@table, @column, vector_as_f32(@queryVector), @limit) AS match ON source.rowid = match.rowid ORDER BY match.distance LIMIT @limit">>

\* How PostgreSQL and SQLite read a quoted identifier: from the character
\* after the opening quote up to the first quote that is not doubled; a
\* doubled quote stands for one quote of the name
RECURSIVE ScanIdentifier(_, _, _)
ScanIdentifier(text, i, name) ==
  IF i > Len(text) THEN [closed |-> FALSE, end |-> Len(text), name |-> name]
  ELSE IF text[i] # Quote THEN ScanIdentifier(text, i + 1, Append(name, text[i]))
  ELSE IF i + 1 <= Len(text) /\ text[i + 1] = Quote
  THEN ScanIdentifier(text, i + 2, Append(name, Quote))
  ELSE [closed |-> TRUE, end |-> i, name |-> name]

Statement(b, op, tableName, text, bind) ==
  [b |-> b, op |-> op, tableName |-> tableName, text |-> text, bind |-> bind]

\* An operation of PgVectorAdapter builds its statement
PgVectorStatement(op, tableName) ==
  /\ op \in DataOps("pgvector")
  /\ tableName \in TableNames
  /\ stmt' = Statement("pgvector", op, tableName, PgVectorSql(op, tableName), {})

\* An operation of SqliteAdapter builds its statement; createTable, dropTable
\* and searchSimilar also pass the table name as the bound parameter @table
\* (vector_init, vector_quantize_cleanup, vector_full_scan)
SqliteStatement(op, tableName) ==
  /\ op \in DataOps("sqlite")
  /\ tableName \in TableNames
  /\ stmt' = Statement("sqlite", op, tableName, SqliteSql(op, tableName),
                       IF op \in {"createTable", "dropTable", "searchSimilar"}
                       THEN {tableName} ELSE {})

----------------------------------------------------------------------------
\* RedisRetriever, PgVectorRetriever and QdrantRetriever, and the adapter
\* methods they call (specification SpecRetrieve)

\* Keys the caller reads
RedisKeys == {"k1", "k2"}

\* The `options` of a Qdrant search: absent, or present with or without a limit
QdrantOptions ==
  {[present |-> FALSE, limit |-> {}], [present |-> TRUE, limit |-> {}],
   [present |-> TRUE, limit |-> {1}]}

\* A call of an adapter or of a retriever as its caller sees it
AdapterCall(b, args, err, res) ==
  [b |-> b, args |-> args, err |-> err, res |-> res]

\* RedisAdapter.get(key): ensureConnected(), then client.get(key), which
\* answers null or a value, or rejects
RedisGet(key) ==
  /\ key \in RedisKeys
  /\ "redis" \in adapters
  /\ IF ~RedisEnsureConnected
     THEN alast' = AdapterCall("redis", [key |-> key], "not_connected", <<>>)
     ELSE \/ \E value \in {"null", "value"} :
               alast' = AdapterCall("redis", [key |-> key], "none", <<value>>)
          \/ alast' = AdapterCall("redis", [key |-> key], "driver_error", <<>>)
  /\ UNCHANGED <<avars, dvars>>

\* QdrantAdapter.search(collectionName, vector, options = {}): ensureConnected(),
\* then client.search with `limit: options.limit ?? 10`
QdrantSearch(collectionName, vector, options) ==
  /\ collectionName \in {"c1", "c2"}
  /\ vector \in Vectors
  /\ options \in QdrantOptions
  /\ "qdrant" \in adapters
  /\ LET args == [collectionName |-> collectionName, vector |-> vector,
                  limit |-> IF options.limit = {} THEN 10
                            ELSE CHOOSE l \in options.limit : TRUE]
     IN IF ~QdrantEnsureConnected
        THEN alast' = AdapterCall("qdrant", args, "not_connected", <<>>)
        ELSE \/ \E points \in {<<>>, <<"point">>} :
                  alast' = AdapterCall("qdrant", args, "none", points)
             \/ alast' = AdapterCall("qdrant", args, "driver_error", <<>>)
  /\ UNCHANGED <<avars, dvars>>

\* PgVectorAdapter.searchSimilar called with `limit` and `distanceFunction`
\* possibly undefined: the default parameters `limit = 10` and
\* `distanceFunction = "cosine"`
PgSearchSimilarCall(queryVector, limit, distanceFunction) ==
  PgSearchSimilar(queryVector,
                  IF limit = {} THEN DefaultLimit ELSE CHOOSE l \in limit : TRUE,
                  IF distanceFunction = Absent THEN "cosine" ELSE distanceFunction)

\* RedisRetriever.retrieve(request)
RedisRetrieve(query) ==
  /\ RedisGet(query.key)
  /\ retr' = AdapterCall("redis", query, alast'.err, alast'.res)

\* Mutant: the distance function of the query is not passed on
PgVectorRetrieveDefaultMetric(query) ==
  /\ PgSearchSimilarCall(query.queryVector, query.limit, Absent)
  /\ retr' = AdapterCall("pgvector", query, dlast'.err, dlast'.rows)

\* PgVectorRetriever.retrieve(request)
PgVectorRetrieve(query) ==
  /\ PgSearchSimilarCall(query.queryVector, query.limit, query.distanceFunction)
  /\ retr' = AdapterCall("pgvector", query, dlast'.err, dlast'.rows)

\* QdrantRetriever.retrieve(request)
QdrantRetrieve(query) ==
  /\ QdrantSearch(query.collectionName, query.vector, query.options)
  /\ retr' = AdapterCall("qdrant", query, alast'.err, alast'.res)

----------------------------------------------------------------------------
\* connect() and disconnect() of RedisAdapter, PgVectorAdapter and
\* QdrantAdapter called without awaiting the calls made before (specification
\* SpecOverlap).  A call runs up to its first await in one step and from the
\* settling of the awaited promise to its end in another.

\* Calls that overlap
MaxCalls == 2

\* A call: the method, the adapter, idle / await / done, the handle whose
\* promise it awaits, the error it rejected with
Proc(fn, b, pc, h, err) == [fn |-> fn, b |-> b, pc |-> pc, h |-> h, err |-> err]

\* connect() up to `await this.client.connect()`, `await this.pool.connect()`
\* or `await this.client.getCollections()`
CallConnect(p, b) ==
  /\ p \in 1..MaxCalls
  /\ procs[p].pc # "await"
  /\ b \in adapters \cap AsyncConnect
  /\ IF ConnectReturnsEarly(b)
     THEN /\ procs' = [procs EXCEPT ![p] = Proc("connect", b, "done", 0, "none")]
          /\ UNCHANGED <<slot, created, open>>
     ELSE /\ Total(created) < MaxHandles
          /\ slot' = [slot EXCEPT ![b] = created[b] + 1]
          /\ created' = [created EXCEPT ![b] = @ + 1]
          /\ open' = IF b = "pgvector"
                     THEN [open EXCEPT ![b] = @ \cup {created[b] + 1}] ELSE open
          /\ procs' = [procs EXCEPT
                         ![p] = Proc("connect", b, "await", created[b] + 1, "none")]
  /\ UNCHANGED <<config, adapters, connected, tasks, pending, last, hist, closed>>

\* The promise a connect() awaits resolves: the Redis client is open;
\* QdrantAdapter sets `connected`
ConnectResolves(p) ==
  /\ p \in 1..MaxCalls
  /\ procs[p].fn = "connect"
  /\ procs[p].pc = "await"
  /\ open' = IF procs[p].b = "redis"
             THEN [open EXCEPT !["redis"] = @ \cup {procs[p].h}] ELSE open
  /\ connected' = IF procs[p].b = "qdrant" THEN TRUE ELSE connected
  /\ procs' = [procs EXCEPT ![p].pc = "done"]
  /\ UNCHANGED <<config, adapters, slot, created, tasks, pending, last, hist,
                 closed>>

\* The promise a connect() awaits rejects: connect() rethrows
ConnectRejects(p) ==
  /\ p \in 1..MaxCalls
  /\ procs[p].fn = "connect"
  /\ procs[p].pc = "await"
  /\ procs' = [procs EXCEPT ![p].pc = "done", ![p].err = "driver_error"]
  /\ UNCHANGED <<avars, closed>>

\* disconnect() up to `await this.client.quit()` or `await this.pool.end()`,
\* and the whole of QdrantAdapter.disconnect().  pool.end() on a pool that is
\* ending or has ended rejects.
CallDisconnect(p, b) ==
  /\ p \in 1..MaxCalls
  /\ procs[p].pc # "await"
  /\ b \in adapters \cap AsyncConnect
  /\ IF ~DisconnectActs(b)
     THEN /\ procs' = [procs EXCEPT ![p] = Proc("disconnect", b, "done", 0, "none")]
          /\ UNCHANGED <<slot, open, connected, closed>>
     ELSE IF b = "qdrant"
     THEN /\ slot' = [slot EXCEPT ![b] = 0]
          /\ connected' = FALSE
          /\ procs' = [procs EXCEPT ![p] = Proc("disconnect", b, "done", 0, "none")]
          /\ UNCHANGED <<open, closed>>
     ELSE /\ Len(closed) < MaxHandles
          /\ closed' = Append(closed, slot[b])
          /\ open' = [open EXCEPT ![b] = @ \ {slot[b]}]
          /\ procs' = [procs EXCEPT
                         ![p] = IF \E i \in 1..Len(closed) : closed[i] = slot[b]
                                THEN Proc("disconnect", b, "done", slot[b],
                                          "ended_twice")
                                ELSE Proc("disconnect", b, "await", slot[b], "none")]
          /\ UNCHANGED <<slot, connected>>
  /\ UNCHANGED <<config, adapters, created, tasks, pending, last, hist>>

\* client.quit() / pool.end() resolves: `this.client = null` / `this.pool = null`
DisconnectResolves(p) ==
  /\ p \in 1..MaxCalls
  /\ procs[p].fn = "disconnect"
  /\ procs[p].pc = "await"
  /\ slot' = [slot EXCEPT ![procs[p].b] = 0]
  /\ procs' = [procs EXCEPT ![p].pc = "done"]
  /\ UNCHANGED <<config, adapters, created, open, connected, tasks, pending,
                 last, hist, closed>>

\* No statement has been built, no retriever and no overlapping call made
AuxIdle ==
  /\ stmt = Statement("-", "none", <<>>, <<>>, {})
  /\ alast = AdapterCall("-", [none |-> "-"], "none", <<>>)
  /\ retr = AdapterCall("-", [none |-> "-"], "none", <<>>)
  /\ procs = [p \in 1..MaxCalls |-> Proc("none", "-", "idle", 0, "none")]
  /\ closed = <<>>

----------------------------------------------------------------------------
Init ==
  /\ config \in SUBSET Backends
  /\ adapters = Constructor(config)
  /\ slot = [b \in Backends |-> 0]
  /\ created = [b \in Backends |-> 0]
  /\ open = [b \in Backends |-> {}]
  /\ connected = FALSE
  /\ tasks = {}
  /\ pending = NoCall
  /\ last = Event("new", "-", "ok", FALSE, {}, {})
  /\ hist = "none"
  /\ DataIdle
  /\ EmbedIdle
  /\ AuxIdle

Next ==
  \/ /\ AggConnect
     /\ UNCHANGED <<dvars, evars, xvars>>
  \/ /\ AggDisconnect
     /\ UNCHANGED <<dvars, evars, xvars>>
  \/ /\ \E b \in Backends : Connect(b)
     /\ UNCHANGED <<dvars, evars, xvars>>
  \/ /\ \E b \in Backends : Disconnect(b)
     /\ UNCHANGED <<dvars, evars, xvars>>
  \/ /\ \E t \in tasks : ConnectSucceed(t)
     /\ UNCHANGED <<dvars, evars, xvars>>
  \/ /\ \E t \in tasks : ConnectFail(t)
     /\ UNCHANGED <<dvars, evars, xvars>>
  \/ /\ \E t \in tasks : DisconnectSettle(t)
     /\ UNCHANGED <<dvars, evars, xvars>>
  \/ /\ \E b \in Backends : Get(b)
     /\ UNCHANGED <<dvars, evars, xvars>>
  \/ /\ \E b \in Backends : \E name \in DataOps(b) : DataOp(b, name)
     /\ UNCHANGED <<dvars, evars, xvars>>

Spec == Init /\ [][Next]_vars

----------------------------------------------------------------------------
\* One of the two adapters, connected or not, before its table exists
DataInit ==
  /\ config \in {{"pgvector"}, {"sqlite"}}
  /\ adapters = Constructor(config)
  /\ slot \in {s \in [Backends -> {0, 1}] : \A b \in Backends \ config : s[b] = 0}
  /\ created = slot
  /\ open = [b \in Backends |-> IF slot[b] = 1 THEN {1} ELSE {}]
  /\ connected = FALSE
  /\ tasks = {}
  /\ pending = NoCall
  /\ last = Event("new", "-", "ok", FALSE, {}, {})
  /\ hist = "none"
  /\ pgTable = [exists |-> FALSE, dim |-> 1, rows |-> <<>>]
  /\ sqConfig \in [vectorDimension : Dims,
                   distanceMetric : SqliteMetrics \cup {Absent}]
  /\ "sqlite" \notin config => sqConfig = [vectorDimension |-> 1,
                                           distanceMetric |-> Absent]
  /\ sqTable = [exists |-> FALSE, rows |-> <<>>]
  /\ dlast = NoOp
  /\ EmbedIdle
  /\ AuxIdle

DataNext ==
  \/ /\ \E d \in Dims : PgCreateTable(d)
     /\ UNCHANGED <<evars, xvars>>
  \/ /\ \E e \in Vectors : PgInsertVector(e)
     /\ UNCHANGED <<evars, xvars>>
  \/ /\ \E q \in Vectors : \E limit \in Limits : \E f \in PgMetrics :
          PgSearchSimilar(q, limit, f)
     /\ UNCHANGED <<evars, xvars>>
  \/ /\ SqCreateTable
     /\ UNCHANGED <<evars, xvars>>
  \/ /\ \E v \in Vectors : SqInsertVector(v)
     /\ UNCHANGED <<evars, xvars>>
  \/ /\ \E q \in Vectors : \E limit \in Limits :
          \E m \in SqliteMetrics \cup {Absent, "hamming"} :
            SqSearchSimilar(q, limit, m)
     /\ UNCHANGED <<evars, xvars>>

SpecData == DataInit /\ [][DataNext]_vars

\* expectedDimensions of the provider options, absent or a dimension
DimensionOptions == {{}} \cup {{d} : d \in Dims}

EmbedInit ==
  /\ embConfig \in [ProviderTypes -> DimensionOptions]
  /\ call = NoCallYet
  /\ registry = NoRegistry
  /\ rlast = NoResult
  /\ AdaptersIdle
  /\ DataIdle
  /\ AuxIdle

EmbedNext ==
  \/ /\ \E type \in ProviderTypes : \E texts \in Inputs : Embed(type, texts)
     /\ UNCHANGED <<avars, dvars, xvars>>
  \/ /\ \E type \in ProviderTypes : EmbedOne(type)
     /\ UNCHANGED <<avars, dvars, xvars>>
  \/ /\ FetchRejects
     /\ UNCHANGED <<avars, dvars, xvars>>
  \/ /\ \E status \in Statuses : FetchResolves(status)
     /\ UNCHANGED <<avars, dvars, xvars>>
  \/ /\ TimerFires
     /\ UNCHANGED <<avars, dvars, xvars>>
  \/ /\ \E readable \in BOOLEAN : \E text \in Bodies : ErrorBody(readable, text)
     /\ UNCHANGED <<avars, dvars, xvars>>
  \/ /\ JsonRejects
     /\ UNCHANGED <<avars, dvars, xvars>>
  \/ /\ JsonWithoutData
     /\ UNCHANGED <<avars, dvars, xvars>>
  \/ /\ \E data \in SeqsUpTo(Items, MaxItems) : JsonWithData(data)
     /\ UNCHANGED <<avars, dvars, xvars>>
  \/ /\ \E cfg \in RegistryConfigs : NewRegistry(cfg)
     /\ UNCHANGED <<avars, dvars, xvars>>
  \/ /\ \E type \in ProviderTypes : HasProvider(type)
     /\ UNCHANGED <<avars, dvars, xvars>>
  \/ /\ \E type \in ProviderTypes : SetDefaultProvider(type)
     /\ UNCHANGED <<avars, dvars, xvars>>
  \/ /\ GetDefaultProviderType
     /\ UNCHANGED <<avars, dvars, xvars>>
  \/ /\ \E type \in ProviderTypes \cup {Absent} : GetProvider(type)
     /\ UNCHANGED <<avars, dvars, xvars>>
  \/ /\ \E fn \in {"embed", "embedOne"} : \E texts \in Inputs :
          \E type \in ProviderTypes \cup {Absent} : RegistryEmbed(fn, texts, type)
     /\ UNCHANGED <<avars, dvars, xvars>>

SpecEmbed == EmbedInit /\ [][EmbedNext]_vars

\* No adapter is configured; the statements are built from every table name
SqlInit ==
  /\ AuxIdle
  /\ AdaptersIdle
  /\ DataIdle
  /\ EmbedIdle

SqlNext ==
  \/ /\ \E op \in DataOps("pgvector") : \E tableName \in TableNames :
          PgVectorStatement(op, tableName)
     /\ UNCHANGED <<avars, dvars, evars, alast, retr, procs, closed>>
  \/ /\ \E op \in DataOps("sqlite") : \E tableName \in TableNames :
          SqliteStatement(op, tableName)
     /\ UNCHANGED <<avars, dvars, evars, alast, retr, procs, closed>>

SpecSql == SqlInit /\ [][SqlNext]_vars

\* One of the three adapters that have a retriever, connected or not
RetrieveInit ==
  /\ config \in {{"redis"}, {"pgvector"}, {"qdrant"}}
  /\ adapters = Constructor(config)
  /\ slot \in {s \in [Backends -> {0, 1}] : \A b \in Backends \ config : s[b] = 0}
  /\ created = slot
  /\ open = [b \in Backends |-> IF slot[b] = 1 THEN {1} ELSE {}]
  /\ connected = (slot["qdrant"] = 1)
  /\ tasks = {}
  /\ pending = NoCall
  /\ last = Event("new", "-", "ok", FALSE, {}, {})
  /\ hist = "none"
  /\ DataIdle
  /\ EmbedIdle
  /\ AuxIdle

RetrieveNext ==
  \/ /\ \E key \in RedisKeys : RedisGet(key)
     /\ retr' = AdapterCall("-", [none |-> "-"], "none", <<>>)
     /\ UNCHANGED <<evars, stmt, procs, closed>>
  \/ /\ \E key \in RedisKeys : RedisRetrieve([key |-> key])
     /\ UNCHANGED <<evars, stmt, procs, closed>>
  \/ /\ \E d \in Dims : PgCreateTable(d)
     /\ retr' = AdapterCall("-", [none |-> "-"], "none", <<>>)
     /\ UNCHANGED <<evars, stmt, alast, procs, closed>>
  \/ /\ \E e \in Vectors : PgInsertVector(e)
     /\ retr' = AdapterCall("-", [none |-> "-"], "none", <<>>)
     /\ UNCHANGED <<evars, stmt, alast, procs, closed>>
  \/ /\ \E q \in Vectors : \E limit \in {{}, {1}} : \E f \in PgMetrics \cup {Absent} :
          PgSearchSimilarCall(q, limit, f)
     /\ retr' = AdapterCall("-", [none |-> "-"], "none", <<>>)
     /\ UNCHANGED <<evars, stmt, alast, procs, closed>>
  \/ /\ \E q \in Vectors : \E limit \in {{}, {1}} : \E f \in PgMetrics \cup {Absent} :
          PgVectorRetrieve([queryVector |-> q, limit |-> limit,
                            distanceFunction |-> f])
     /\ UNCHANGED <<evars, stmt, alast, procs, closed>>
  \/ /\ \E c \in {"c1", "c2"} : \E v \in Vectors : \E o \in QdrantOptions :
          QdrantSearch(c, v, o)
     /\ retr' = AdapterCall("-", [none |-> "-"], "none", <<>>)
     /\ UNCHANGED <<evars, stmt, procs, closed>>
  \/ /\ \E c \in {"c1", "c2"} : \E v \in Vectors : \E o \in QdrantOptions :
          QdrantRetrieve([collectionName |-> c, vector |-> v, options |-> o])
     /\ UNCHANGED <<evars, stmt, procs, closed>>

SpecRetrieve == RetrieveInit /\ [][RetrieveNext]_vars

\* One of the three adapters whose connect() awaits, not connected
OverlapInit ==
  /\ config \in {{"redis"}, {"pgvector"}, {"qdrant"}}
  /\ adapters = Constructor(config)
  /\ slot = [b \in Backends |-> 0]
  /\ created = [b \in Backends |-> 0]
  /\ open = [b \in Backends |-> {}]
  /\ connected = FALSE
  /\ tasks = {}
  /\ pending = NoCall
  /\ last = Event("new", "-", "ok", FALSE, {}, {})
  /\ hist = "none"
  /\ DataIdle
  /\ EmbedIdle
  /\ AuxIdle

OverlapNext ==
  \/ /\ \E p \in 1..MaxCalls : \E b \in Backends : CallConnect(p, b)
     /\ UNCHANGED <<dvars, evars, stmt, alast, retr>>
  \/ /\ \E p \in 1..MaxCalls : ConnectResolves(p)
     /\ UNCHANGED <<dvars, evars, stmt, alast, retr>>
  \/ /\ \E p \in 1..MaxCalls : ConnectRejects(p)
     /\ UNCHANGED <<dvars, evars, stmt, alast, retr>>
  \/ /\ \E p \in 1..MaxCalls : \E b \in Backends : CallDisconnect(p, b)
     /\ UNCHANGED <<dvars, evars, stmt, alast, retr>>
  \/ /\ \E p \in 1..MaxCalls : DisconnectResolves(p)
     /\ UNCHANGED <<dvars, evars, stmt, alast, retr>>

SpecOverlap == OverlapInit /\ [][OverlapNext]_vars

----------------------------------------------------------------------------
\* Properties

TypeOK ==
  /\ config \in SUBSET Backends
  /\ adapters \in SUBSET Backends
  /\ slot \in [Backends -> 0..MaxHandles]
  /\ created \in [Backends -> 0..MaxHandles]
  /\ open \in [Backends -> SUBSET (1..MaxHandles)]
  /\ connected \in BOOLEAN
  /\ \A t \in tasks : t.b \in Backends /\ t.op \in {"connect", "disconnect"}
                      /\ t.h \in 1..MaxHandles /\ t.joined \in BOOLEAN
  /\ pending.kind \in {"none", "aggConnect", "aggDisconnect", "connect",
                       "disconnect"}
  /\ hist \in {"none", "connFailed", "cleaned"}

\* C1: for every configuration with at least one backend, the aggregator
\* reports connected right after an aggregate connect() that resolved and not
\* connected right after an aggregate disconnect() that returned.
C1_ConnectThenDisconnect ==
  config # {} =>
    /\ (last.op = "aggConnect" /\ last.res = "ok") => AggIsConnected
    /\ (last.op = "aggDisconnect" /\ last.res = "ok") => ~AggIsConnected

\* C2: with no backend configured, aggregate connect() fails with the
\* configuration error, and no adapter connect() runs: no handle, no task and
\* no connection state ever exists.
C2_NoBackendsConfigured ==
  config = {} =>
    /\ last.op = "aggConnect" => last.res = "config_error"
    /\ tasks = {}
    /\ \A b \in Backends : slot[b] = 0 /\ created[b] = 0 /\ open[b] = {}
    /\ ~connected
    /\ pending = NoCall

C2_Witness == config = {} /\ last.op = "aggConnect"

\* C3: a getter fails with the not-configured error iff its backend key is
\* absent from the configuration, whatever the connection state, otherwise it
\* returns the adapter; and it changes no state.
C3_GetterStatic ==
  [][last'.op = "get" =>
       /\ (last'.res = "not_configured") <=> (last'.b \notin config)
       /\ (last'.res = "adapter") <=> (last'.b \in config)
       /\ UNCHANGED <<config, adapters, slot, created, open, connected, tasks,
                      pending>>]_vars

C3_Witness ==
  /\ last.op = "get"
  /\ last.res = "adapter"
  /\ ~IsConnected(last.b)
  /\ slot[last.b] # 0
  /\ \E b \in Backends : b \notin config

\* C4: the aggregator's isConnected() is the OR of isConnected() over the
\* configured adapters, so it stays true while any of them is connected.
C4_IsConnectedIsOr ==
  AggIsConnected <=> \E b \in config : IsConnected(b)

C4_Witness ==
  /\ last.op = "disconnect"
  /\ last.res = "ok"
  /\ last.pre
  /\ ~IsConnected(last.b)
  /\ AggIsConnected

\* C5: an aggregate connect() in which some backend's connect() rejected has
\* failed, and when it fails every backend whose own connect() resolved in
\* that call still reports connected (nothing is rolled back).
C5_FailureWithoutRollback ==
  last.op = "aggConnect" =>
    /\ last.bad # {} => last.res = "fail"
    /\ last.res = "fail" => \A b \in last.ok : IsConnected(b)

C5_Witness ==
  /\ last.op = "aggConnect"
  /\ last.res = "fail"
  /\ \E b \in last.ok : created[b] > 0

\* C6: once the disconnect() that follows a rejected aggregate connect() has
\* completed, no configured backend is connected, until connect() is called
\* again.
C6_DisconnectCleansUp == hist = "cleaned" => ~AggIsConnected

\* C7: right after a connect() on an adapter has settled, the adapter holds a
\* handle and reports connected iff that connect() resolved; right after a
\* disconnect() it reports not connected.
C7_HandleIffConnected ==
  \A b \in Backends :
    last.b = b =>
      /\ (last.op = "connect" /\ last.res = "ok") =>
           (slot[b] # 0 /\ IsConnected(b))
      /\ (last.op = "connect" /\ last.res = "fail") =>
           (slot[b] = 0 /\ ~IsConnected(b))
      /\ (last.op = "disconnect" /\ last.res = "ok") => ~IsConnected(b)

\* C8: a data operation invoked on an adapter that is not connected fails
\* with the not-connected error before any driver call and leaves the adapter
\* not connected.
C8_DataOpNeedsConnection ==
  (last.op = "data" /\ ~last.pre) =>
    (last.res = "not_connected" /\ ~IsConnected(last.b))

C8_Witness ==
  /\ last.op = "data"
  /\ ~last.pre
  /\ slot[last.b] # 0

\* C9: connect() invoked (directly or by the aggregator) on an adapter that is
\* already connected creates no handle, starts no driver call and leaves the
\* adapter's handle and connection state as they were.
C9_ConnectIdempotent ==
  [][\A b \in Backends :
       ( /\ pending.kind = "none"
         /\ IsConnected(b)
         /\ \/ last'.op = "connect" /\ last'.b = b
            \/ last'.op = "aggConnect" /\ b \in adapters )
       => /\ slot'[b] = slot[b]
          /\ created'[b] = created[b]
          /\ open'[b] = open[b]
          /\ IsConnected(b)'
          /\ {t \in tasks' : t.b = b} = {t \in tasks : t.b = b}
          /\ last'.op = "connect" => last'.res = "ok"]_vars

C9_Witness ==
  /\ last.op = "connect"
  /\ last.pre
  /\ last.res = "ok"

\* C10: after any disconnect() on an adapter has returned (no other call on
\* that adapter being in flight), the adapter's handle is null and it reports
\* not connected; on an adapter that is not connected it returns at once.
C10_DisconnectIdempotent ==
  (last.op = "disconnect" /\ \A t \in tasks : t.b # last.b) =>
    /\ ~last.pre => last.res = "ok"
    /\ last.res = "ok" => (slot[last.b] = 0 /\ ~IsConnected(last.b))

\* C11: the rows PgVectorAdapter.searchSimilar returns are ordered closest
\* first under the metric selected by distanceFunction (cosine distance,
\* Euclidean distance or inner-product distance to the query vector), and in
\* the order of the `distance` value each row carries.
C11_OrderedByMetric ==
  LET metricDistance(e) ==
        CASE dlast.metric = "cosine" -> CosineDistance(e, dlast.q)
          [] dlast.metric = "l2" -> L2Distance(e, dlast.q)
          [] dlast.metric = "inner_product" -> NegInnerProduct(e, dlast.q)
  IN (dlast.op = "searchSimilar" /\ dlast.b = "pgvector" /\ dlast.err = "none") =>
       \A i, j \in 1..Len(dlast.rows) :
          i < j =>
            /\ Leq(metricDistance(dlast.rows[i].embedding),
                   metricDistance(dlast.rows[j].embedding))
            /\ Leq(dlast.rows[i].distance, dlast.rows[j].distance)

\* C12: insertVector of PgVectorAdapter and of SqliteAdapter, called on a
\* connected adapter with a vector whose length differs from the declared
\* dimension of the table, fails with the adapter's own dimension-mismatch
\* error before any driver call is made.
C12_DimensionCheckedBeforeDriver ==
  LET declared == IF dlast.b = "pgvector" THEN pgTable.dim
                  ELSE sqConfig.vectorDimension
      exists == IF dlast.b = "pgvector" THEN pgTable.exists ELSE sqTable.exists
  IN ( /\ dlast.op = "insertVector"
       /\ dlast.err # "not_connected"
       /\ exists
       /\ Len(dlast.q) # declared )
     => (dlast.err = "dimension_mismatch" /\ dlast.calls = <<>>)

\* C13: SqliteAdapter.searchSimilar fails before any query is run whenever the
\* requested metric (inner_product read as dot, an absent one as the
\* configured metric or cosine) differs from the configured metric; when the
\* two agree, on a connected adapter and with a query vector of the
\* configured dimension, the query is handed to the database.
C13_MetricMismatchFailsFast ==
  LET norm(m) == IF m = "inner_product" THEN "dot" ELSE m
      configured == IF sqConfig.distanceMetric = Absent THEN "cosine"
                    ELSE norm(sqConfig.distanceMetric)
      requested == IF dlast.metric = Absent THEN configured
                   ELSE norm(dlast.metric)
  IN (dlast.op = "searchSimilar" /\ dlast.b = "sqlite") =>
       /\ requested # configured =>
            (dlast.err # "none" /\ dlast.calls = <<>> /\ dlast.rows = <<>>)
       /\ ( /\ requested = configured
            /\ SqliteEnsureConnected
            /\ Len(dlast.q) = sqConfig.vectorDimension )
          => dlast.calls # <<>>

C13_Witness ==
  /\ dlast.op = "searchSimilar"
  /\ dlast.b = "sqlite"
  /\ dlast.err = "metric_mismatch"
  /\ dlast.metric = "inner_product"

\* C14: embed(texts) of a provider fails on an empty or non-array input
\* without any HTTP request, and for a non-empty array issues exactly one POST,
\* carrying all the texts, whatever the outcome of the call is.
C14_OneRequestPerCall ==
  call.provider \in ProviderTypes =>
    /\ (~call.texts.array \/ call.texts.len = 0) =>
         (call.pc = "done" /\ call.err = "invalid_input" /\ call.posts = <<>>)
    /\ (call.texts.array /\ call.texts.len > 0) =>
         call.posts = <<call.texts.len>>

C14_Witness ==
  /\ call.pc = "done"
  /\ call.fn = "embed"
  /\ call.texts.len = 2
  /\ call.err = "network"
  /\ call.posts = <<2>>

\* C15 as stated: once the endpoint has answered with a non-success status,
\* embed()/embedOne() fail with an error that carries the status code and the
\* body of the response, and return no vector.
C15_StatusErrorCarriesBody ==
  (call.pc = "done" /\ call.status # 0 /\ call.status \notin 200..299) =>
    /\ call.err = "http_status"
    /\ call.errStatus = call.status
    /\ call.read = "text"
    /\ call.errBody = call.body
    /\ call.vectors = <<>> /\ call.one = {}

\* C15 as amended: the error carries the status code and the body of the
\* response when the body could be read, and the placeholder "<no body>" in
\* its place when it could not; no vector is returned.
C15_StatusErrorCarriesBodyOrPlaceholder ==
  (call.pc = "done" /\ call.status # 0 /\ call.status \notin 200..299) =>
    /\ call.err = "http_status"
    /\ call.errStatus = call.status
    /\ call.read \in {"text", "unreadable"}
    /\ call.read = "text" => (call.body \in Bodies /\ call.errBody = call.body)
    /\ call.read = "unreadable" => call.errBody = "<no body>"
    /\ call.vectors = <<>> /\ call.one = {}

C15_Witness ==
  /\ call.pc = "done"
  /\ call.status = 401
  /\ call.read = "text"
  /\ call.err = "http_status"
  /\ call.errBody = "Unauthorized"

\* C16: once the timer of an embed() call has fired before the call finished,
\* the call is over and has failed with the timeout error (not with the
\* HTTP-status error, nor with any other).
C16_TimeoutAbortsWithTimeoutError ==
  call.timer = "fired" => (call.pc = "done" /\ call.err = "timeout")

\* C17: with expectedDimensions configured, a call that received a {data: [...]}
\* answer returns successfully exactly when every vector of the answer is an
\* array of that length; otherwise it fails with the dimension-mismatch error
\* and returns no vector.
C17_AllOrNothingDimensions ==
  ( /\ call.pc = "done"
    /\ call.read = "data"
    /\ embConfig[call.provider] # {} ) =>
    LET fits == \A i \in 1..Len(call.data) :
                  /\ call.data[i].embedding.array
                  /\ {call.data[i].embedding.len} = embConfig[call.provider]
    IN /\ fits <=> call.err = "none"
       /\ ~fits => /\ call.err = "dimension_mismatch"
                   /\ call.vectors = <<>>
                   /\ call.one = {}

C17_Witness ==
  /\ call.pc = "done"
  /\ call.fn = "embed"
  /\ call.read = "data"
  /\ Len(call.data) = 2
  /\ {call.data[1].embedding.len} = embConfig[call.provider]
  /\ {call.data[2].embedding.len} # embConfig[call.provider]
  /\ call.err = "dimension_mismatch"

\* C18: whenever embed(texts) returns successfully, it returns exactly one
\* vector per input text, each of them an array.
C18_OneVectorPerText ==
  (call.pc = "done" /\ call.fn = "embed" /\ call.err = "none") =>
    /\ Len(call.vectors) = call.texts.len
    /\ \A i \in 1..Len(call.vectors) : call.vectors[i].array

\* C19: whenever embedOne(text) returns successfully, it returns a vector,
\* never undefined.
C19_EmbedOneReturnsVector ==
  (call.pc = "done" /\ call.fn = "embedOne" /\ call.err = "none") =>
    /\ call.one # {}
    /\ \A v \in call.one : v.array

\* C20: constructing a VectorSmithEmbedding with neither jina nor openai
\* configured fails with the configuration error, and every instance that
\* exists holds at least one provider.
C20_AtLeastOneProvider ==
  /\ registry.exists => registry.providers # {}
  /\ ( /\ rlast.op = "new"
       /\ rlast.cfg.jina = "absent"
       /\ rlast.cfg.openai = "absent" )
     => (rlast.err = "no_provider" /\ ~registry.exists)

C20_Witness ==
  /\ rlast.op = "new"
  /\ rlast.cfg.jina = "absent"
  /\ rlast.cfg.openai = "absent"
  /\ rlast.cfg.defaultProvider = "JINA"
  /\ rlast.err = "no_provider"

\* C21: after a VectorSmithEmbedding has been constructed, its default
\* provider is the configured defaultProvider when that names a configured
\* provider, else the only configured provider when there is exactly one,
\* else unset; getDefaultProviderType() returns it.
C21_DefaultAfterConstruction ==
  /\ (rlast.op = "new" /\ rlast.err = "none") =>
       registry.defaultProvider =
         IF /\ rlast.cfg.defaultProvider # Absent
            /\ rlast.cfg.defaultProvider \in registry.providers
         THEN {rlast.cfg.defaultProvider}
         ELSE IF Cardinality(registry.providers) = 1
         THEN registry.providers
         ELSE {}
  /\ rlast.op = "getDefaultProviderType" =>
       IF registry.defaultProvider = {} THEN rlast.res = "undefined"
       ELSE {rlast.res} = registry.defaultProvider

C21_Witness ==
  /\ rlast.op = "new"
  /\ rlast.err = "none"
  /\ rlast.cfg.defaultProvider = Absent
  /\ registry.providers = {"OPENAI"}
  /\ registry.defaultProvider = {"OPENAI"}

\* C22: getProvider(type?) returns the provider of the explicit type when one
\* is given and the default provider otherwise; it fails when no type is given
\* and no default is set, and when the resolved type is not configured.  embed
\* and embedOne of the registry call the provider so resolved, and when the
\* resolution fails they fail with its error and no request is made.
C22_GetProviderResolves ==
  rlast.op \in {"getProvider", "embed", "embedOne"} =>
    LET resolved == IF rlast.arg # Absent THEN {rlast.arg}
                    ELSE registry.defaultProvider
    IN /\ resolved = {} => rlast.err = "no_default"
       /\ (resolved # {} /\ resolved \cap registry.providers = {})
            => rlast.err = "not_configured"
       /\ (resolved # {} /\ resolved \subseteq registry.providers)
            => (rlast.err = "none" /\ {rlast.res} = resolved)
       /\ (rlast.op # "getProvider" /\ rlast.err # "none")
            => (call.pc = "done" /\ call.err = rlast.err /\ call.posts = <<>>)
       /\ (rlast.op # "getProvider" /\ rlast.err = "none")
            => ({call.provider} = resolved /\ call.fn = rlast.op)

C22_Witness ==
  /\ rlast.op = "embed"
  /\ rlast.arg = "OPENAI"
  /\ registry.defaultProvider = {"JINA"}
  /\ registry.providers = {"JINA", "OPENAI"}
  /\ call.provider = "OPENAI"
  /\ call.pc = "done"
  /\ call.err = "none"

\* C30: in every state of a VectorSmithEmbedding reached by any sequence of
\* setDefaultProvider calls, the default provider is unset or a configured
\* provider: setDefaultProvider(type) with a type that is not configured fails
\* and leaves the default as it was, with a configured type it makes that type
\* the default, and getProvider() without an argument never fails with the
\* not-configured error.
C30_DefaultIsConfigured ==
  [][ /\ registry'.exists => registry'.defaultProvider \subseteq registry'.providers
      /\ rlast'.op = "setDefaultProvider" =>
           IF rlast'.arg \in registry.providers
           THEN /\ rlast'.err = "none"
                /\ registry'.defaultProvider = {rlast'.arg}
           ELSE /\ rlast'.err = "not_configured"
                /\ registry' = registry
      /\ (rlast'.op \in {"getProvider", "embed", "embedOne"} /\ rlast'.arg = Absent)
           => rlast'.err # "not_configured" ]_vars

C30_Witness ==
  /\ rlast.op = "setDefaultProvider"
  /\ rlast.arg = "OPENAI"
  /\ rlast.err = "not_configured"
  /\ registry.defaultProvider = {"JINA"}

\* C25: VectorSmithAdapter.connect() calls connect() on every configured
\* backend adapter and touches no backend that is not configured, and whenever
\* it returns successfully the connect() of every configured backend has
\* resolved and every configured backend reports connected.
C25_ConnectsEveryConfigured ==
  [][ /\ (pending.kind = "none" /\ last'.op = "aggConnect") =>
           \A b \in Backends :
              /\ b \in config <=>
                   \/ b \in last'.ok \cup last'.bad
                   \/ \E t \in tasks' \ tasks : t.b = b /\ t.op = "connect"
              /\ b \notin config =>
                   /\ slot'[b] = slot[b]
                   /\ created'[b] = created[b]
                   /\ open'[b] = open[b]
      /\ (last'.op = "aggConnect" /\ last'.res = "ok") =>
           /\ last'.ok = config
           /\ \A b \in config : IsConnected(b)' ]_vars

C25_Witness ==
  /\ config = {"redis", "sqlite", "qdrant"}
  /\ last.op = "aggConnect"
  /\ last.res = "ok"
  /\ last.ok = config
  /\ \A b \in config : IsConnected(b)

\* C26: VectorSmithAdapter.disconnect() calls disconnect() on exactly the
\* configured backends that report connected when it is called; a backend that
\* is configured but does not report connected is skipped and keeps its state,
\* and with no backend connected the call completes successfully and changes
\* nothing.
C26_DisconnectsOnlyConnected ==
  [][ (pending.kind = "none" /\ last'.op = "aggDisconnect") =>
        /\ \A b \in Backends :
             IF b \in config /\ IsConnected(b)
             THEN \/ \E t \in tasks' \ tasks :
                        t.b = b /\ t.op = "disconnect" /\ t.h = slot[b]
                  \/ b \notin AsyncDisconnect /\ slot'[b] = 0
             ELSE /\ slot'[b] = slot[b]
                  /\ open'[b] = open[b]
                  /\ b = "qdrant" => connected' = connected
                  /\ {t \in tasks' : t.b = b} = {t \in tasks : t.b = b}
        /\ (\A b \in config : ~IsConnected(b)) =>
             /\ last'.res = "ok"
             /\ pending'.kind = "none"
             /\ <<slot, created, open, connected, tasks>>'
                  = <<slot, created, open, connected, tasks>> ]_vars

\* disconnect() has skipped a Qdrant adapter that holds a client and does not
\* report connected
C26_Witness ==
  /\ last.op = "aggDisconnect"
  /\ last.res = "ok"
  /\ "qdrant" \in config
  /\ slot["qdrant"] # 0
  /\ ~connected
  /\ "sqlite" \in config
  /\ slot["sqlite"] = 0
  /\ created["sqlite"] > 0

\* C24: for every table name, escapeIdentifier of PgVectorAdapter and of
\* SqliteAdapter yields the name between two double quotes with every double
\* quote of the name doubled, so that the identifier the database reads ends
\* where the name ends and is the name; every operation of the two adapters
\* that puts a table name into the text of a statement puts it there in this
\* form.
C24_IdentifierEscaped ==
  stmt.op # "none" =>
    LET text == stmt.text
        name == stmt.tableName
        quotes == Cardinality({i \in 1..Len(name) : name[i] = Quote})
        at == CHOOSE i \in 1..Len(text) :
                 text[i] = Quote /\ \A j \in 1..(i - 1) : text[j] # Quote
        id == ScanIdentifier(text, at + 1, <<>>)
    IN /\ id.closed
       /\ id.name = name
       /\ id.end = at + Len(name) + quotes + 1
       /\ \A i \in 1..Len(text) : (i < at \/ i > id.end) => text[i] \notin NameChars

\* A statement built from a table name that holds a double quote
C24_Witness ==
  /\ stmt.b = "pgvector"
  /\ stmt.op = "deleteVector"
  /\ stmt.tableName = <<Quote, ";">>
  /\ stmt.text = <<"DELETE FROM ", Quote, Quote, Quote, ";", Quote, " WHERE id = $1">>

\* C23: retrieve(request) of RedisRetriever, PgVectorRetriever and
\* QdrantRetriever is one call of get / searchSimilar / search of its adapter
\* with the fields of request.query, and returns the result or the error of
\* that call as it is; for every query and every state of the adapter
\* (connected or not) the step is a step of the direct call.
C23_RetrieverDelegates ==
  [][ /\ retr'.b = "redis" =>
           /\ RedisGet(retr'.args.key)
           /\ retr'.err = alast'.err
           /\ retr'.res = alast'.res
      /\ retr'.b = "pgvector" =>
           /\ PgSearchSimilarCall(retr'.args.queryVector, retr'.args.limit,
                                  retr'.args.distanceFunction)
           /\ retr'.err = dlast'.err
           /\ retr'.res = dlast'.rows
      /\ retr'.b = "qdrant" =>
           /\ QdrantSearch(retr'.args.collectionName, retr'.args.vector,
                           retr'.args.options)
           /\ retr'.err = alast'.err
           /\ retr'.res = alast'.res ]_vars

\* PgVectorRetriever has returned the one row asked for, under the Euclidean
\* distance, of a table that holds two
C23_Witness ==
  /\ retr.b = "pgvector"
  /\ retr.args.distanceFunction = "l2"
  /\ retr.args.limit = {1}
  /\ retr.err = "none"
  /\ Len(retr.res) = 1
  /\ Len(pgTable.rows) = 2

\* C27: for QdrantAdapter, under every interleaving of connect() and
\* disconnect() calls, a disconnect() that runs while a connect() awaits the
\* server included, `connected` is true only while the client field is not
\* null: isConnected() returning true implies that the data operations pass
\* ensureConnected().
C27_QdrantConnectedHasClient ==
  QdrantIsConnected => (slot["qdrant"] # 0 /\ QdrantEnsureConnected)

\* C28: a connect() that starts while another connect() on the same adapter is
\* awaiting its driver, the adapter still holding the handle that call
\* created, creates no further handle and leaves the handle field as it is:
\* overlapping connect() calls create at most one handle per adapter and
\* overwrite none that has not been closed.
C28_OverlappingConnectOneHandle ==
  [][\A p, q \in 1..MaxCalls :
       ( /\ p # q
         /\ procs[q].fn = "connect"
         /\ procs[q].pc = "await"
         /\ slot[procs[q].b] = procs[q].h
         /\ procs[p].pc # "await"
         /\ procs'[p] # procs[p]
         /\ procs'[p].fn = "connect"
         /\ procs'[p].b = procs[q].b )
       => /\ created'[procs[q].b] = created[procs[q].b]
          /\ slot'[procs[q].b] = slot[procs[q].b]]_vars

\* C29: under every interleaving of overlapping disconnect() calls on a
\* connected adapter, quit() / end() is called at most once on each handle and
\* no disconnect() call ends with an error.
C29_OverlappingDisconnectClosesOnce ==
  /\ \A i, j \in 1..Len(closed) : closed[i] = closed[j] => i = j
  /\ \A p \in 1..MaxCalls : procs[p].fn = "disconnect" => procs[p].err = "none"

====
